---- MODULE Spec2Model ----
(***************************************************************************)
(* Model of src/page_table.C: the two-level x86 page table of the kernel   *)
(* (PageTable::init_paging, the constructor, load, enable_paging and       *)
(* handle_fault), together with the physical memory the code writes, the   *)
(* two frame pools it allocates from and the paging registers it uses.     *)
(*                                                                         *)
(* Every pointer the code dereferences is an address the processor         *)
(* translates: physical while the paging bit of CR0 is clear, through the  *)
(* two-level walk rooted at CR3 once it is set.  A page is 1024 words; a   *)
(* word of a directory or table is an integer (frame * 4096 + flag bits).  *)
(* A 32-bit address or register value is the pair <<high, low>> of its two  *)
(* 16-bit halves, so that all 32 bits are kept.                            *)
(***************************************************************************)
EXTENDS Integers, Sequences, FiniteSets, TLC

\* ------------------------------------------------------------- constants
PAGE_SIZE == 4096
ENTRIES_PER_PAGE == 1024

\* bounds of the model
NKernel == 4
NProcess == 3
MaxTables == 2

\* 0x8000: the paging bit of CR0 (0x80000000, line 96) in the high half
CR0_PG_HIGH == 32768

\* The frames the two pools manage.  The kernel pool lies inside the first
\* 4 MiB (the region the constructor identity-maps: the code dereferences
\* kernel-pool frame addresses directly), the process pool starts at 4 MiB.
KernelFrames == 512 .. (511 + NKernel)
ProcessFrames == 1024 .. (1023 + NProcess)
\* Physical frames whose contents the model tracks: frame 0 (where a null
\* page_directory points) and the frames of both pools.
Frames == {0} \cup KernelFrames \cup ProcessFrames

\* What a frame holds before anybody wrote it (uninitialised memory): every
\* word a value with bit 0 clear (6) or every word a value with bit 0 set
\* (which reads as a present entry: frame 1025, flags 7).
JunkWords == {6, 1025 * PAGE_SIZE + 7}

\* The faulting addresses the processor reports in CR2.
FaultAddrs ==
  { <<0, 4096>>,          \* 0x00001000  pd 0,    pt 1     (identity region)
    <<64, 0>>,            \* 0x00400000  pd 1,    pt 0
    <<64, 4096>>,         \* 0x00401000  pd 1,    pt 1     (adjacent page)
    <<128, 0>>,           \* 0x00800000  pd 2,    pt 0
    <<65472, 8192>>,      \* 0xFFC02000  pd 1023, pt 2     (recursive window)
    <<65535, 61440>> }    \* 0xFFFFF000  pd 1023, pt 1023

NullPool == "nullptr"
KernelPool == "kernel_mem_pool"
ProcessPool == "process_mem_pool"

VARIABLES
  mem,                 \* physical memory: [Frames -> page], 1024 words a page
  kfree, pfree,        \* free frames of the kernel pool and of the process pool
  kernel_mem_pool,     \* static ContFramePool * PageTable::kernel_mem_pool
  process_mem_pool,    \* static ContFramePool * PageTable::process_mem_pool
  shared_size,         \* static unsigned long PageTable::shared_size
  tables,              \* the PageTable objects constructed so far
  current_page_table,  \* static PageTable * (0 = nullptr, else index in tables)
  paging_enabled,      \* static unsigned int PageTable::paging_enabled
  cr0, cr2, cr3,       \* processor registers
  crashed,             \* the kernel itself faulted on one of its own accesses
  last                 \* the operation that ran last, the path it took and
                       \* (prev) the path of the handle_fault call for the same
                       \* address that ran right before it, if one did

vars == <<mem, kfree, pfree, kernel_mem_pool, process_mem_pool, shared_size,
          tables, current_page_table, paging_enabled, cr0, cr2, cr3, crashed, last>>

\* ------------------------------------------------------------- words
Min(S) == CHOOSE x \in S : \A y \in S : x <= y

\* e & 0x1
Present(e) == e % 2 = 1
\* (e >> 1) & 1 and (e >> 2) & 1
Writable(e) == (e \div 2) % 2 = 1
UserBit(e) == (e \div 4) % 2 = 1
\* the frame number an entry holds, e >> 12
FrameOf(e) == e \div PAGE_SIZE

\* reinterpret_cast<unsigned long*>(n): the address with value n
Ptr(n) == <<n \div 65536, n % 65536>>
NullPtr == <<0, 0>>
\* the frame an address lies in, address >> 12
FrameOfAddr(a) == a[1] * 16 + a[2] \div PAGE_SIZE

\* x | 0x3
SetPresentRW(x) == x - (x % 4) + 3

\* 0x2: supervisor, read/write, not present (line 69)
NotPresentEntry == 2

\* (faulting_address >> 22) & 0x3FF and (faulting_address >> 12) & 0x3FF
PdIndex(a) == a[1] \div 64
PtIndex(a) == (a[1] % 64) * 16 + a[2] \div PAGE_SIZE

\* the same window address with pd_index not shifted into bits 12..21
WindowAddr_NoShift(pd) == <<65472, pd>>
\* (unsigned long*)(0xFFC00000 | (pd_index << 12)); 0xFFC0 is 65472
WindowAddr(pd) == <<65472 + pd \div 16, (pd % 16) * PAGE_SIZE>>

\* (unsigned long*)(entry & ~0xFFF)
TableBase(e) == Ptr((e \div PAGE_SIZE) * PAGE_SIZE)

\* ------------------------------------------------------------- pages
\* A page of 1024 words is kept as the last pattern stored over (most of)
\* it, fill, and the words that differ from that pattern, ov.  A pattern
\* is the same word v everywhere ("const") or, at index i, the entry the
\* constructor gives the first table ("first_table").
\* a first table that is off by one frame: entry i for frame i + 1
FirstTableEntry_NextFrame(i) == SetPresentRW((i + 1) * PAGE_SIZE)
\* address | 0x3 with address = i * PAGE_SIZE (lines 58-62)
FirstTableEntry(i) == SetPresentRW(i * PAGE_SIZE)

AllWords(v) == [kind |-> "const", v |-> v]
IdentityWords == [kind |-> "first_table", v |-> 0]
PatternWord(fd, i) == IF fd.kind = "const" THEN fd.v ELSE FirstTableEntry(i)

Indices == 0 .. (ENTRIES_PER_PAGE - 1)

\* a page nobody wrote yet, every word of it w
NeverWritten(w) == [fill |-> AllWords(w), ov |-> [i \in {} |-> 0]]

\* word i of page pg
Word(pg, i) == IF i \in DOMAIN pg.ov THEN pg.ov[i] ELSE PatternWord(pg.fill, i)

\* pg after the stores pg[i] = pattern fd at i, for i = lo .. hi
WritePage(pg, lo, hi, fd) ==
  IF (hi - lo + 1) * 2 > ENTRIES_PER_PAGE
  THEN [fill |-> fd,
        ov |-> [i \in {j \in (0 .. (lo - 1)) \cup ((hi + 1) .. (ENTRIES_PER_PAGE - 1)) :
                         Word(pg, j) # PatternWord(fd, j)} |-> Word(pg, i)]]
  ELSE [fill |-> pg.fill,
        ov |-> [i \in {j \in (DOMAIN pg.ov) \cup (lo .. hi) :
                         IF j \in lo .. hi
                         THEN PatternWord(fd, j) # PatternWord(pg.fill, j)
                         ELSE TRUE}
                  |-> IF i \in lo .. hi THEN PatternWord(fd, i) ELSE pg.ov[i]]]

\* ------------------------------------------------------------- pools
\* ContFramePool::get_frames(1): the first free frame, 0 when there is none
GetFrames(free) == IF free = {} THEN 0 ELSE Min(free)

\* first_page_table_frame == 0 (line 46)
FirstTableAllocFailed(f) == f = 0

\* a handler that does not test the kernel pool's result
KernelAllocFailed_Never(f) == FALSE
\* new_page_table_frame == 0 (line 141)
KernelAllocFailed(f) == f = 0

\* new_frame == 0 (line 197)
ProcessAllocFailed(f) == f = 0

\* ------------------------------------------------------------- translation
PagingOn(c0) == (c0[1] \div CR0_PG_HIGH) % 2 = 1

NoTranslation == [ok |-> FALSE, frame |-> 0, walked |-> {}]

\* The processor's two-level walk from the directory at physical address root.
Walk(m, root, va) ==
  LET df == FrameOfAddr(root) IN
  IF df \notin Frames THEN NoTranslation
  ELSE LET pde == Word(m[df], PdIndex(va)) IN
       IF ~Present(pde) \/ FrameOf(pde) \notin Frames THEN NoTranslation
       ELSE LET tf == FrameOf(pde)
                pte == Word(m[tf], PtIndex(va))
            IN IF ~Present(pte) \/ FrameOf(pte) \notin Frames THEN NoTranslation
               ELSE [ok |-> TRUE, frame |-> FrameOf(pte),
                     walked |-> {<<df, PdIndex(va)>>, <<tf, PtIndex(va)>>}]

\* The frame a page-aligned pointer va refers to: itself while paging is
\* off, the result of the walk from CR3 once it is on.
Translate(m, c0, c3, va) ==
  IF PagingOn(c0) THEN Walk(m, c3, va)
  ELSE IF FrameOfAddr(va) \in Frames
       THEN [ok |-> TRUE, frame |-> FrameOfAddr(va), walked |-> {}]
       ELSE NoTranslation

\* p[i] read through the pointer p
Load(m, c0, c3, p, i) ==
  LET t == Translate(m, c0, c3, p) IN
  IF t.ok THEN [ok |-> TRUE, val |-> Word(m[t.frame], i)] ELSE [ok |-> FALSE, val |-> 0]

\* for (i = lo; i <= hi; ++i) p[i] = V at i;  applied to r = [ok, mem], the
\* memory so far and whether the kernel is still running.  Every store is
\* translated when it is made, so a store that lands on a word the walk
\* itself reads changes where the following stores go; a store that does
\* not translate is a fault of the kernel's own access and ends the run.
RECURSIVE StoreRange(_, _, _, _, _, _, _)
StoreRange(r, c0, c3, p, lo, hi, V) ==
  IF ~r.ok \/ lo > hi THEN r
  ELSE LET t == Translate(r.mem, c0, c3, p) IN
       IF ~t.ok THEN [ok |-> FALSE, mem |-> r.mem]
       ELSE LET hz == {w[2] : w \in {x \in t.walked :
                                       x[1] = t.frame /\ lo <= x[2] /\ x[2] <= hi}}
                stop == IF hz = {} THEN hi ELSE Min(hz)
                m2 == [r.mem EXCEPT ![t.frame] = WritePage(@, lo, stop, V)]
            IN StoreRange([ok |-> TRUE, mem |-> m2], c0, c3, p, stop + 1, hi, V)

\* p[i] = v
Store(r, c0, c3, p, i, v) == StoreRange(r, c0, c3, p, i, i, AllWords(v))

Running(m) == [ok |-> TRUE, mem |-> m]

\* ------------------------------------------------------------- init_paging
\* PageTable::init_paging (lines 15-26); boot code calls it once, before any
\* PageTable is constructed.
InitPaging ==
  /\ ~crashed
  /\ kernel_mem_pool = NullPool
  /\ kernel_mem_pool' = KernelPool
  /\ process_mem_pool' = ProcessPool
  /\ shared_size' = 1024 * PAGE_SIZE
  /\ last' = [op |-> "init_paging", outcome |-> "done", addr |-> NullPtr,
              kframe |-> -1, pframe |-> -1, prev |-> "none"]
  /\ UNCHANGED <<mem, kfree, pfree, tables, current_page_table, paging_enabled,
                 cr0, cr2, cr3, crashed>>

\* ------------------------------------------------------------- constructor
\* the slot of the recursive mapping, ENTRIES_PER_PAGE - 1 (line 73)
RecursiveSlot == ENTRIES_PER_PAGE - 1

\* page_directory_address | 0x3 (line 73)
RecursiveEntry(pdaddr) == SetPresentRW(pdaddr)

\* PageTable::PageTable (lines 28-76), run on the current memory and kernel
\* pool, written as the stages the code goes through.  The result names the
\* memory and the pool afterwards, the page_directory field of the new
\* object, the address of its first table (null when none was built) and
\* the path taken.
Constructed(m, kf, cr, pdir, first, path) ==
  [mem |-> m, kfree |-> kf, crashed |-> cr, page_directory |-> pdir,
   first_page_table |-> first, outcome |-> path]

\* line 75 reached (or the kernel faulted on one of the stores before it)
ConstructFinish(D, F, kf, s) ==
  Constructed(s.mem, kf, ~s.ok, Ptr(D * PAGE_SIZE), Ptr(F * PAGE_SIZE),
              IF s.ok THEN "built" ELSE "fault")

\* lines 51-73: fill the first table, then directory slot 0, slots 1..1023
\* and last the recursive slot
ConstructMap(D, F, kf, s) ==
  ConstructFinish(D, F, kf,
    Store(
      StoreRange(
        Store(
          StoreRange(s, cr0, cr3, Ptr(F * PAGE_SIZE),            \* lines 55-62
                     0, 1023, IdentityWords),
          cr0, cr3, Ptr(D * PAGE_SIZE), 0,                       \* line 65
          SetPresentRW(F * PAGE_SIZE)),
        cr0, cr3, Ptr(D * PAGE_SIZE),                            \* lines 68-70
        1, 1023, AllWords(NotPresentEntry)),
      cr0, cr3, Ptr(D * PAGE_SIZE),                              \* line 73
      RecursiveSlot, RecursiveEntry(D * PAGE_SIZE)))

\* lines 45-49: the frame of the first table, F, and the test of it
ConstructFirstTable(D, F, kf, s) ==
  IF FirstTableAllocFailed(F)
  THEN Constructed(s.mem, kf, FALSE, Ptr(D * PAGE_SIZE), NullPtr, "no_first_table")
  ELSE ConstructMap(D, F, kf \ {F}, s)

\* lines 37-42 done: s is the memory after the directory was cleared
ConstructCleared(D, kf, s) ==
  IF ~s.ok
  THEN Constructed(s.mem, kf, TRUE, Ptr(D * PAGE_SIZE), NullPtr, "fault")
  ELSE ConstructFirstTable(D, GetFrames(kf), kf, s)

\* lines 31-42: D is the frame get_frames returned for the directory (not
\* tested); the directory is cleared through the pointer made from it
ConstructDirectory(D) ==
  ConstructCleared(D, kfree \ {D},
    StoreRange(Running(mem), cr0, cr3, Ptr(D * PAGE_SIZE),
               0, ENTRIES_PER_PAGE - 1, AllWords(0)))

ConstructRun == ConstructDirectory(GetFrames(kfree))

\* the constructor's result c becomes the state; the new object joins the
\* objects that exist
ConstructApply(c) ==
  /\ mem' = c.mem
  /\ kfree' = c.kfree
  /\ crashed' = c.crashed
  /\ tables' = Append(tables, [page_directory |-> c.page_directory,
                               first_page_table |-> c.first_page_table,
                               built |-> c.outcome = "built"])
  /\ last' = [op |-> "construct", outcome |-> c.outcome, addr |-> NullPtr,
              kframe |-> FrameOfAddr(c.page_directory), pframe |-> -1,
              prev |-> "none"]

\* new PageTable(), after init_paging
Construct ==
  /\ ~crashed
  /\ kernel_mem_pool # NullPool
  /\ Len(tables) < MaxTables
  /\ ConstructApply(ConstructRun)
  /\ UNCHANGED <<pfree, kernel_mem_pool, process_mem_pool, shared_size,
                 current_page_table, paging_enabled, cr0, cr2, cr3>>

\* ------------------------------------------------------------- load
\* page_directory == nullptr (line 84)
LoadRefused(pdaddr) == pdaddr = NullPtr

\* the address of the page after the directory
DirectoryBase_NextPage(pdaddr) == <<pdaddr[1], pdaddr[2] + PAGE_SIZE>>
\* reinterpret_cast<unsigned long>(page_directory), the value of line 88
DirectoryBase(pdaddr) == pdaddr

\* PageTable::load (lines 82-91) on object o
LoadTable(o) ==
  /\ ~crashed
  /\ IF LoadRefused(tables[o].page_directory)
     THEN /\ last' = [op |-> "load", outcome |-> "not_set",
                      addr |-> tables[o].page_directory,
                      kframe |-> -1, pframe |-> -1, prev |-> "none"]
          /\ UNCHANGED <<cr3, current_page_table>>
     ELSE /\ cr3' = DirectoryBase(tables[o].page_directory)      \* line 88
          /\ current_page_table' = o                             \* line 89
          /\ last' = [op |-> "load", outcome |-> "loaded",
                      addr |-> tables[o].page_directory,
                      kframe |-> -1, pframe |-> -1, prev |-> "none"]
  /\ UNCHANGED <<mem, kfree, pfree, kernel_mem_pool, process_mem_pool,
                 shared_size, tables, paging_enabled, cr0, cr2, crashed>>

\* ------------------------------------------------------------- enable_paging
\* CR0 overwritten with the paging bit alone
OrPagingBit_Overwrite(c0) == <<CR0_PG_HIGH, 0>>
\* read_cr0() | 0x80000000 (line 96)
OrPagingBit(c0) == IF PagingOn(c0) THEN c0 ELSE <<c0[1] + CR0_PG_HIGH, c0[2]>>

\* PageTable::enable_paging (lines 93-100)
EnablePaging ==
  /\ ~crashed
  /\ cr0' = OrPagingBit(cr0)
  /\ paging_enabled' = 1
  /\ last' = [op |-> "enable_paging", outcome |-> "enabled", addr |-> NullPtr,
              kframe |-> -1, pframe |-> -1, prev |-> "none"]
  /\ UNCHANGED <<mem, kfree, pfree, kernel_mem_pool, process_mem_pool,
                 shared_size, tables, current_page_table, cr2, cr3, crashed>>

\* ------------------------------------------------------------- handle_fault
\* the presence test negated
PresentBitSet_Inverted(e) == e % 2 = 0
\* entry & 0x1, the tests of lines 135 and 191
PresentBitSet(e) == e % 2 = 1

\* new_page_table_address | 0x3, the directory entry of line 150
NewTableEntry(K) == SetPresentRW(K * PAGE_SIZE)

\* frame_address | 0x3, the page entry of lines 163-168
NewPageEntry(E) == SetPresentRW(PAGE_SIZE * E)

\* the new page entry written with flags 0x2 (not present)
TableMissEntry_NotPresent(N) == N * PAGE_SIZE + 2
\* new_frame_address | 0x3, the page entry of lines 203-206
TableMissEntry(N) == SetPresentRW(N * PAGE_SIZE)

\* what the handler leaves behind: memory, pools, whether the kernel faulted
\* on its own access, the frames the two pools returned (-1: not asked) and
\* the path taken
Outcome(m, kf, pf, cr, kframe, pframe, path) ==
  [mem |-> m, kfree |-> kf, pfree |-> pf, crashed |-> cr,
   kframe |-> kframe, pframe |-> pframe, outcome |-> path]

\* line 177 reached (or the kernel faulted on the store of line 168)
DirectoryMissFinish(K, E, s) ==
  Outcome(s.mem, kfree \ {K}, pfree \ {E}, ~s.ok, K, E,
          IF s.ok THEN "directory_miss" ELSE "fault")

\* the same stage with the clearing loop run once more after the page
\* entry was stored
DirectoryMissPage_ZeroedAfter(a, K, E, s) ==
  DirectoryMissFinish(K, E,
    StoreRange(
      Store(s, cr0, cr3, WindowAddr(PdIndex(a)), PtIndex(a), NewPageEntry(E)),
      cr0, cr3, WindowAddr(PdIndex(a)), 0, ENTRIES_PER_PAGE - 1, AllWords(0)))
\* lines 162-168: E is the frame the process pool returned (not tested);
\* the page entry is stored through the window
DirectoryMissPage(a, K, E, s) ==
  DirectoryMissFinish(K, E,
    Store(s, cr0, cr3, WindowAddr(PdIndex(a)), PtIndex(a), NewPageEntry(E)))

\* lines 157-160 done: s is the memory after the new table was cleared
DirectoryMissCleared(a, K, s) ==
  IF ~s.ok
  THEN Outcome(s.mem, kfree \ {K}, pfree, TRUE, K, -1, "fault")
  ELSE DirectoryMissPage(a, K, GetFrames(pfree), s)

\* The directory-miss branch (lines 135-178) for faulting address a, with
\* pdir the page_directory field of the active table and K the frame the
\* kernel pool returned at line 139: the directory entry is stored (line
\* 150), then the new table is cleared through the window (lines 157-160).
DirectoryMiss(a, pdir, K) ==
  IF KernelAllocFailed(K)                                        \* lines 141-144
  THEN Outcome(mem, kfree, pfree, FALSE, K, -1, "no_kernel_frame")
  ELSE DirectoryMissCleared(a, K,
         StoreRange(
           Store(Running(mem), cr0, cr3, pdir, PdIndex(a), NewTableEntry(K)),
           cr0, cr3, WindowAddr(PdIndex(a)),
           0, ENTRIES_PER_PAGE - 1, AllWords(0)))

\* line 206 done (or the kernel faulted on it)
DirectoryHitFinish(N, s) ==
  Outcome(s.mem, kfree, pfree \ {N}, ~s.ok, -1, N,
          IF s.ok THEN "table_miss" ELSE "fault")

\* lines 195-206: N is the frame the process pool returned
DirectoryHitInstall(a, page_table, N) ==
  IF ProcessAllocFailed(N)                                       \* lines 197-200
  THEN Outcome(mem, kfree, pfree, FALSE, -1, N, "no_process_frame")
  ELSE DirectoryHitFinish(N,
         Store(Running(mem), cr0, cr3, page_table, PtIndex(a),
               TableMissEntry(N)))

\* The directory-hit branch (lines 180-214) for faulting address a, with
\* page_table the pointer of line 182 and r the read of line 184.
DirectoryHit(a, page_table, r) ==
  IF ~r.ok THEN Outcome(mem, kfree, pfree, TRUE, -1, -1, "fault")
  ELSE IF PresentBitSet(r.val)                                   \* line 191
  THEN Outcome(mem, kfree, pfree, FALSE, -1, -1, "present")
  ELSE DirectoryHitInstall(a, page_table, GetFrames(pfree))

\* lines 128-135: r is the read of the directory entry
HandleFaultDirectory(a, pdir, r) ==
  IF ~r.ok THEN Outcome(mem, kfree, pfree, TRUE, -1, -1, "fault")
  ELSE IF ~PresentBitSet(r.val)                                  \* line 135
  THEN DirectoryMiss(a, pdir, GetFrames(kfree))
  ELSE DirectoryHit(a, TableBase(r.val),
                    Load(mem, cr0, cr3, TableBase(r.val), PtIndex(a)))

\* PageTable::handle_fault (lines 103-214) for the faulting address a
HandleFaultRun(a) ==
  IF current_page_table = 0                                      \* lines 106-109
  THEN Outcome(mem, kfree, pfree, FALSE, -1, -1, "no_table")
  ELSE HandleFaultDirectory(a, tables[current_page_table].page_directory,
         Load(mem, cr0, cr3, tables[current_page_table].page_directory,
              PdIndex(a)))

\* the handler's result h becomes the state
HandleFaultApply(a, h) ==
  /\ mem' = h.mem
  /\ kfree' = h.kfree
  /\ pfree' = h.pfree
  /\ crashed' = h.crashed
  /\ last' = [op |-> "handle_fault", outcome |-> h.outcome, addr |-> a,
              kframe |-> h.kframe, pframe |-> h.pframe,
              prev |-> IF last.op = "handle_fault" /\ last.addr = a
                       THEN last.outcome ELSE "none"]

\* The processor raises a page fault for address a (it does so only while
\* paging is on), stores a in CR2 and the dispatcher calls handle_fault.
HandleFault(a) ==
  /\ ~crashed
  /\ PagingOn(cr0)
  /\ cr2' = a
  /\ HandleFaultApply(a, HandleFaultRun(a))
  /\ UNCHANGED <<kernel_mem_pool, process_mem_pool, shared_size, tables,
                 current_page_table, paging_enabled, cr0, cr3>>

\* ------------------------------------------------------------- specification
\* The state when the kernel starts: nothing initialised (lines 7-11), CR0
\* with protected mode on and paging off (0x11), CR2 and CR3 zero, memory
\* never written, every frame of the kernel pool free, and the process
\* pool either untouched or already used up by its other users.
Init ==
  /\ \E w \in JunkWords : mem = [f \in Frames |-> NeverWritten(w)]
  /\ kfree = KernelFrames
  /\ \E n \in {0, NProcess} : pfree = {f \in ProcessFrames : f >= 1024 + n}
  /\ kernel_mem_pool = NullPool
  /\ process_mem_pool = NullPool
  /\ shared_size = 0
  /\ tables = <<>>
  /\ current_page_table = 0
  /\ paging_enabled = 0
  /\ cr0 = <<0, 17>>
  /\ cr2 = NullPtr
  /\ cr3 = NullPtr
  /\ crashed = FALSE
  /\ last = [op |-> "boot", outcome |-> "done", addr |-> NullPtr,
             kframe |-> -1, pframe |-> -1, prev |-> "none"]

Next ==
  \/ InitPaging
  \/ Construct
  \/ \E o \in 1 .. Len(tables) : LoadTable(o)
  \/ EnablePaging
  \/ \E a \in FaultAddrs : HandleFault(a)

Spec == Init /\ [][Next]_vars

\* ------------------------------------------------------------- properties
\* What the memory holds, read physically (not through a pointer).
DirFrame(o) == FrameOfAddr(tables[o].page_directory)
DirWord(o, i) == Word(mem[DirFrame(o)], i)
PresentRW(e) == Present(e) /\ Writable(e)

\* the active table exists and its constructor ran to the end
ActiveBuilt == current_page_table # 0 /\ tables[current_page_table].built

\* the step is a call of handle_fault (every operation names itself in last)
FaultStep == last'.op = "handle_fault" /\ vars' # vars

\* C1: identity mapping invariant.  Once a successfully constructed table
\* is loaded and paging is on, whatever faults were handled since: directory
\* slot 0 (read from the directory CR3 names) is present+writable and refers
\* to the first table, and entry i of that table is present+writable with
\* frame i, for every i in 0..1023: every address below 4 MiB translates to
\* itself.
\* entry e is present+writable and holds frame i
MapsFrame(e, i) == e % 4 = 3 /\ e \div PAGE_SIZE = i

IdentityTable(pg) == \A i \in Indices : MapsFrame(Word(pg, i), i)

IdentitySlot(slot0, first) ==
  /\ PresentRW(slot0)
  /\ TableBase(slot0) = first
  /\ IdentityTable(mem[FrameOf(slot0)])

C1_IdentityMapping ==
  (ActiveBuilt /\ PagingOn(cr0)) =>
    /\ cr3 = tables[current_page_table].page_directory
    /\ IdentitySlot(Word(mem[FrameOfAddr(cr3)], 0),
                    tables[current_page_table].first_page_table)

\* C1 witness: the active table is built, paging is on and a fault in
\* the recursive window was just resolved into a new entry.
C1_Witness ==
  /\ ActiveBuilt /\ PagingOn(cr0)
  /\ last.op = "handle_fault" /\ last.outcome = "table_miss"
  /\ PdIndex(last.addr) = RecursiveSlot

\* C2: recursive slot stability.  Slot 1023 of the directory of every
\* successfully constructed table is present+writable and holds the
\* directory's own frame, from the end of the constructor on and through
\* every handle_fault call.
C2_RecursiveSlot ==
  \A o \in 1 .. Len(tables) :
    tables[o].built =>
      /\ PresentRW(DirWord(o, RecursiveSlot))
      /\ FrameOf(DirWord(o, RecursiveSlot)) = DirFrame(o)

\* C2 witness: a fault at 0xFFFFF000 (directory index 1023 and table index
\* 1023) was handled on a built active table.
C2_Witness ==
  /\ ActiveBuilt
  /\ last.op = "handle_fault" /\ ~crashed
  /\ PdIndex(last.addr) = RecursiveSlot /\ PtIndex(last.addr) = RecursiveSlot

\* the entry the directory of the active table holds for address a, and
\* the entry the table it refers to holds for a (both read physically)
ActiveDir == DirFrame(current_page_table)
ActivePDE(a) == Word(mem[ActiveDir], PdIndex(a))
ActivePTE(a) == Word(mem[FrameOf(ActivePDE(a))], PtIndex(a))

\* every frame but those of F holds after the step what it held before
OnlyWritten(F) == \A f \in Frames \ F : mem'[f] = mem[f]

\* page pg differs from page old at index t at most
SameBut(pg, old, t) == \A i \in Indices \ {t} : Word(pg, i) = Word(old, i)

\* page pg is zero everywhere but at index t, where it holds a present+
\* writable entry for a frame the step took from the process pool
FreshTable(pg, t) ==
  /\ PresentRW(Word(pg, t))
  /\ FrameOf(Word(pg, t)) \in pfree
  /\ pfree' = pfree \ {FrameOf(Word(pg, t))}
  /\ \A i \in Indices \ {t} : Word(pg, i) = 0

\* what a resolved directory miss for address a leaves: df is the frame of
\* the directory, pde the entry the directory holds for a after the step
DirectoryMissResolved(a, df, pde) ==
  /\ ~crashed'
  /\ SameBut(mem'[df], mem[df], PdIndex(a))
  /\ PresentRW(pde)
  /\ FrameOf(pde) \in kfree
  /\ kfree' = kfree \ {FrameOf(pde)}
  /\ FreshTable(mem'[FrameOf(pde)], PtIndex(a))
  /\ OnlyWritten({df, FrameOf(pde)})
  /\ Walk(mem', cr3', a).ok

\* C3: directory-miss resolution.  With a successfully constructed table
\* active and a free frame in each pool, handle_fault for an address whose
\* directory entry is absent (its directory index is then neither 0 nor
\* 1023) changes exactly one directory entry: that slot becomes present+
\* writable and refers to a frame just taken from the kernel pool; that
\* frame is zero everywhere but at the table index of the address, where a
\* present+writable entry refers to a frame just taken from the process
\* pool; nothing else is written and the address then translates.
C3_DirectoryMiss ==
  [][ ( /\ FaultStep
        /\ ActiveBuilt
        /\ kfree # {} /\ pfree # {}
        /\ ~Present(ActivePDE(cr2')) )
      => /\ PdIndex(cr2') \notin {0, RecursiveSlot}
         /\ DirectoryMissResolved(cr2', ActiveDir,
                                  Word(mem'[ActiveDir], PdIndex(cr2'))) ]_vars

\* C3 witness: a directory miss was resolved on a built active table with a
\* frame from each pool.
C3_Witness ==
  /\ ActiveBuilt
  /\ last.op = "handle_fault" /\ last.outcome = "directory_miss"
  /\ last.kframe \in KernelFrames /\ last.pframe \in ProcessFrames

\* what the claim C4 says a table miss for address a leaves: df the frame
\* of the directory, tf the frame the directory entry refers to
TableMissResolved(a, df, tf) ==
  /\ kfree' = kfree
  /\ mem'[df] = mem[df]
  /\ PresentRW(Word(mem'[tf], PtIndex(a)))
  /\ SameBut(mem'[tf], mem[tf], PtIndex(a))
  /\ OnlyWritten({tf})

\* C4: directory hit, table miss.  With a built table active and a free
\* process frame, handle_fault for an address whose directory entry is
\* present and whose page entry is absent takes no kernel frame, changes no
\* entry of the page directory and installs exactly one present+writable
\* entry, at the table index of the address in the table the directory
\* entry refers to.
C4_TableMiss ==
  [][ ( /\ FaultStep
        /\ ActiveBuilt
        /\ pfree # {}
        /\ Present(ActivePDE(cr2'))
        /\ ~Present(ActivePTE(cr2')) )
      => TableMissResolved(cr2', ActiveDir, FrameOf(ActivePDE(cr2'))) ]_vars

\* C5: resolve or halt.  Whenever handle_fault has returned (the kernel is
\* running and the last operation is handle_fault), there is an active
\* table and it holds a present directory entry and a present page entry
\* for the faulting address.
C5_ResolveOrHalt ==
  (last.op = "handle_fault" /\ ~crashed) =>
    /\ current_page_table # 0
    /\ Present(ActivePDE(last.addr))
    /\ Present(ActivePTE(last.addr))

\* C6: process-pool exhaustion is fatal.  A handle_fault call in which the
\* process pool returned 0 writes no present entry for frame 0 anywhere.
C6_NoSentinelEntry ==
  [][ (FaultStep /\ last'.pframe = 0)
      => \A f \in Frames :
           \/ mem'[f] = mem[f]
           \/ \A i \in Indices :
                \/ Word(mem'[f], i) = Word(mem[f], i)
                \/ ~(Present(Word(mem'[f], i)) /\ FrameOf(Word(mem'[f], i)) = 0) ]_vars

C8_ConstructionFailure ==
  [][ (last'.op = "construct" /\ vars' # vars /\ Cardinality(kfree) < 2)
      => /\ mem'[0] = mem[0]
         /\ tables'[Len(tables')].page_directory = NullPtr ]_vars

\* C9: only a fully constructed table is ever activated.  The active table,
\* when there is one, is a table whose constructor ran to the end, and CR3
\* is only ever written with the directory of such a table.
C9_OnlyBuiltActivated ==
  /\ current_page_table # 0 => tables[current_page_table].built
  /\ cr3 # NullPtr =>
       \E o \in 1 .. Len(tables) :
         tables[o].built /\ tables[o].page_directory = cr3

MiddleSlots == 1 .. (RecursiveSlot - 1)

AbsentSupervisor(e) == ~Present(e) /\ ~UserBit(e)

C11_UntouchedSlots ==
  [][ /\ (last'.op = "construct" /\ vars' # vars /\ last'.outcome = "built")
         => \A d \in MiddleSlots :
              AbsentSupervisor(Word(mem'[last'.kframe], d))
      /\ (FaultStep /\ ActiveBuilt)
         => \A d \in MiddleSlots \ {PdIndex(cr2')} :
              Word(mem'[ActiveDir], d) = Word(mem[ActiveDir], d) ]_vars

\* C12: pool discipline.  In every state, every present entry of the
\* directory of a successfully constructed table refers to a frame taken
\* from the kernel pool (slot 1023 to the directory's own frame), so never
\* to a frame of the process pool, and every present entry of a table that
\* handle_fault allocated (a present slot in 1..1022) refers to a frame
\* taken from the process pool.
TakenKernel == KernelFrames \ kfree
TakenProcess == ProcessFrames \ pfree

PageEntriesFromProcessPool(pg) ==
  \A t \in Indices : Present(Word(pg, t)) => FrameOf(Word(pg, t)) \in TakenProcess

C12_PoolDiscipline ==
  \A o \in 1 .. Len(tables) :
    tables[o].built =>
      \A d \in Indices :
        Present(DirWord(o, d)) =>
          /\ FrameOf(DirWord(o, d)) \in TakenKernel
          /\ d = RecursiveSlot => FrameOf(DirWord(o, d)) = DirFrame(o)
          /\ d \in MiddleSlots => PageEntriesFromProcessPool(mem[FrameOf(DirWord(o, d))])

\* C13: active table and base register agree.  In every state with an
\* active table CR3 holds the address of that table's directory, and a
\* load() call on a successfully constructed table writes that table's
\* directory address to CR3 and makes the table the active one.
LoadStepOn(o) ==
  /\ last'.op = "load" /\ vars' # vars
  /\ last'.addr = tables[o].page_directory

C13_ActiveMatchesCR3 ==
  /\ [](current_page_table # 0 => cr3 = tables[current_page_table].page_directory)
  /\ [][ \A o \in 1 .. Len(tables) :
           (tables[o].built /\ LoadStepOn(o))
             => /\ cr3' = tables[o].page_directory
                /\ current_page_table' = o ]_vars

\* C13 witness: paging is on and a second successfully constructed table
\* has just been loaded in place of the first.
C13_Witness ==
  /\ last.op = "load" /\ last.outcome = "loaded" /\ PagingOn(cr0)
  /\ current_page_table = 2
  /\ tables[1].built /\ tables[2].built
  /\ cr3 = tables[2].page_directory

\* everything but the record of the last operation
ProgramState ==
  <<mem, kfree, pfree, kernel_mem_pool, process_mem_pool, shared_size,
    tables, current_page_table, paging_enabled, cr0, cr2, cr3, crashed>>

EnableStep == last'.op = "enable_paging" /\ vars' # vars

\* the bits of CR0 other than the paging bit
OtherBits(c0) == <<c0[1] % CR0_PG_HIGH, c0[2]>>

\* C14: paging enable is one-way and idempotent.  The paging-enabled flag
\* is set exactly when enable_paging has run, and then the paging bit of
\* CR0 is set; no step of any operation clears the flag or the bit; an
\* enable_paging call sets both and keeps every other bit of CR0; and an
\* enable_paging call made when paging is already enabled changes nothing.
C14_EnableOneWay ==
  /\ [](paging_enabled = 1 => PagingOn(cr0))
  /\ [][ /\ paging_enabled = 1 => paging_enabled' = 1
         /\ PagingOn(cr0) => PagingOn(cr0')
         /\ EnableStep => /\ paging_enabled' = 1 /\ PagingOn(cr0')
                          /\ OtherBits(cr0') = OtherBits(cr0)
         /\ (EnableStep /\ paging_enabled = 1) => ProgramState' = ProgramState
       ]_vars

\* C14 witness: enable_paging has just run again after a page fault was
\* handled (so paging had been enabled before), with CR0 still holding
\* the bits it had at boot besides the paging bit.
C14_Witness ==
  /\ last.op = "enable_paging" /\ cr2 # NullPtr
  /\ paging_enabled = 1 /\ cr0 = <<CR0_PG_HIGH, 17>>

\* C15: entry bit layout.  In every state, every entry of the directory of
\* a successfully constructed table and of every second-level table a
\* present directory entry refers to has the privilege bit (bit 2) clear
\* and, when present, the writable bit (bit 1) set.
LayoutOK(e) == ~UserBit(e) /\ (Present(e) => Writable(e))

LayoutOKPage(pg) == \A i \in Indices : LayoutOK(Word(pg, i))

C15_EntryLayout ==
  \A o \in 1 .. Len(tables) :
    tables[o].built =>
      /\ LayoutOKPage(mem[DirFrame(o)])
      /\ \A d \in Indices :
           (Present(DirWord(o, d)) /\ FrameOf(DirWord(o, d)) \in Frames)
             => LayoutOKPage(mem[FrameOf(DirWord(o, d))])

ConstructStep == last'.op = "construct" /\ vars' # vars

\* C16: construction has no register side effects.  A constructor call,
\* whether it runs to the end or not, leaves CR3, CR0, the active-table
\* pointer and the paging-enabled flag as they were; it takes frames from
\* the kernel pool only and writes only the memory of the frames it took.
\* Stated for the calls made while the kernel's own addresses are identity
\* addresses: paging off, or a successfully constructed table active.
C16_ConstructionEffects ==
  [][ (ConstructStep /\ (~PagingOn(cr0) \/ ActiveBuilt))
      => /\ cr3' = cr3 /\ cr0' = cr0 /\ cr2' = cr2
         /\ current_page_table' = current_page_table
         /\ paging_enabled' = paging_enabled
         /\ pfree' = pfree
         /\ kfree' \subseteq kfree
         /\ OnlyWritten(kfree \ kfree') ]_vars

\* the active table translates the pointer p to frame f
ReachesFrame(m, p, f) == Walk(m, cr3, p).ok /\ Walk(m, cr3, p).frame = f

\* C17: addressing discipline of the fault handler.  In a handle_fault
\* call on a successfully constructed active table, the pointer through
\* which the handler reads and writes the second-level table translates,
\* in the active table, to that table's frame: on the directory-hit path
\* the pointer made from the present directory entry (line 182), whatever
\* frame that entry names; on the directory-miss path the window address
\* (line 157), to the frame just taken from the kernel pool.
C17_AddressingDiscipline ==
  [][ /\ (FaultStep /\ ActiveBuilt /\ Present(ActivePDE(cr2')))
         => ReachesFrame(mem, TableBase(ActivePDE(cr2')),
                         FrameOf(ActivePDE(cr2')))
      /\ (FaultStep /\ ActiveBuilt /\ last'.outcome = "directory_miss")
         => ReachesFrame(mem', WindowAddr(PdIndex(cr2')), last'.kframe) ]_vars

C19_ResidentFault ==
  [][ ( /\ FaultStep
        /\ ActiveBuilt
        /\ Present(ActivePDE(cr2'))
        /\ FrameOf(ActivePDE(cr2')) \in Frames
        /\ Present(ActivePTE(cr2')) )
      => /\ ~crashed'
         /\ last'.outcome = "present"
         /\ last'.kframe = -1 /\ last'.pframe = -1
         /\ mem' = mem /\ kfree' = kfree /\ pfree' = pfree ]_vars

\* the frames the directory in frame df leads to: the directory itself and
\* the frame of every present entry of it, in memory m
TableFrames(m, df) ==
  {df} \cup {FrameOf(Word(m[df], d)) : d \in {i \in Indices : Present(Word(m[df], i))}}

\* C20: the fault handler never changes which table is active.  A
\* handle_fault call, on every path, leaves the active-table pointer, CR3,
\* CR0, the paging-enabled flag and the pool configuration as they were
\* and, when a table is active, writes no frame other than that table's
\* directory and the second-level tables its entries name; and no step of
\* any operation but load() changes the active-table pointer, which is
\* never reset to none.
C20_HandlerKeepsActive ==
  [][ /\ FaultStep
         => /\ current_page_table' = current_page_table
            /\ cr3' = cr3 /\ cr0' = cr0
            /\ paging_enabled' = paging_enabled
            /\ kernel_mem_pool' = kernel_mem_pool
            /\ process_mem_pool' = process_mem_pool
            /\ shared_size' = shared_size
            /\ tables' = tables
            /\ current_page_table # 0
                 => OnlyWritten(TableFrames(mem', ActiveDir))
      /\ current_page_table' # current_page_table
         => last'.op = "load" /\ current_page_table' # 0 ]_vars

====
